---------------------------- MODULE Spec2Model ----------------------------
(***************************************************************************)
(* A model of curtisbraxdale/pokedex-go: the TTL cache of                  *)
(* internal/pokecache (Add, Get, reapLoop under one mutex) and the         *)
(* paginated fetch pipeline utils.GetLocationAreas with its callers        *)
(* commandMap and commandMapb.                                             *)
(*                                                                         *)
(* Time is a discrete clock `now`.  URLs are positive integers (page i of  *)
(* the catalog has URL i, reference j of page i has URL 10*i+j), a nil     *)
(* *string is Nil, and a response body is a sequence of integers that      *)
(* Unmarshal parses.                                                       *)
(*                                                                         *)
(* SpecCache is the cache with one caller, the clock and the reaper;       *)
(* SpecIso is the cache under concurrent callers of distinct keys; Spec is *)
(* the command loop during the first reaper interval after start.          *)
(* SpecStore is the cache with a caller that only adds, SpecAlias the      *)
(* cache with a caller that writes into its slices, SpecClean the function *)
(* cleanInput over all short lines; SpecTTL and SpecNet are the command    *)
(* loop with the clock and the reaper running.                             *)
(***************************************************************************)
EXTENDS Integers, Sequences, FiniteSets, TLC

(***************************************************************************)
(* Bounds of the model.                                                    *)
(***************************************************************************)
MaxTime == 4        \* the clock stops at MaxTime
NumPages == 2       \* list pages of the remote catalog (and cache keys)
MaxOps == 2         \* cache calls a direct caller makes
MaxAdds == 3        \* Adds a caller that only stores makes

PageSize == 2       \* references on the first list page
MaxCmds == 3        \* map / mapb commands typed at the prompt

MaxLen == 4         \* characters of an input line

(***************************************************************************)
(* Program constants.                                                      *)
(***************************************************************************)
Interval == 2       \* interval := time.Hour, in clock units
Nil == 0            \* a nil *string / a JSON null
NoThread == 0 - 2   \* the mutex is unlocked
ReaperThread == 0 - 1   \* the goroutine started by NewCache
MainThread == 0     \* the goroutine running main's command loop

AreaURL == 100      \* apiURL of ExploreArea for the location typed
PokemonURL == 200   \* apiURL of CatchPokemon for the pokemon typed

Keys == 1..NumPages
Workers == Keys     \* one concurrent caller per key
Threads == {MainThread} \cup Workers
Payloads == {<<1>>, <<2>>}

VARIABLES
    cacheMap,   \* Cache.cacheMap: a function from the keys present to entries
    mu,         \* Cache.mu: the thread holding the mutex, or NoThread
    now,        \* the clock read by time.Now()
    ticker,     \* the one-slot channel of time.Tick: the buffered tick's time, or Nil
    reaper,     \* reapLoop's position: [pc, tick, todo]
    call,       \* per thread, the cache call it is in: [op, key, val, pc, ret]
    prev,       \* per thread, the cache call it completed before the current one
    hist,       \* history, per key: the last Add and whether a sweep removed it since
    swept,      \* history: the tick time of the last sweep that completed
    ops,        \* history: the number of cache calls the direct clients started
    config,     \* main's UrlConfig: [Next, Previous]
    pc,         \* where the main goroutine is
    gla,        \* GetLocationAreas' locals: [direction, url, body, list]
    tasks,      \* the detail goroutines of the call: per reference, [url, pc]
    wg,         \* the WaitGroup's counter
    chans,      \* locationAreaCh and errorCh: [la, er], each [buf, closed, cap]
    closer,     \* where the goroutine that closes the channels is
    coll,       \* the collection loop: [areas, errors, laNil, erNil]
    result,     \* what the last command returned: [areas, err]
    cmds,       \* history: the number of commands typed
    h,          \* history of the current command, see NoH
    repl        \* main's loop: [input, cleanedInput, pc]

pipeVars == <<config, pc, gla, tasks, wg, chans, closer, coll, result, cmds, h, repl>>

vars == <<cacheMap, mu, now, ticker, reaper, call, prev, hist, swept, ops,
          config, pc, gla, tasks, wg, chans, closer, coll, result, cmds, h, repl>>

(***************************************************************************)
(* The cache: internal/pokecache/pokecache.go                              *)
(***************************************************************************)
NoVal == <<>>       \* a nil []byte

NoRet == [val |-> NoVal, found |-> FALSE]

NoCall == [op |-> "none", key |-> Nil, val |-> NoVal, pc |-> "idle", ret |-> NoRet]

NoPrev == [op |-> "none", key |-> Nil, val |-> NoVal]

NoHist == [by |-> NoThread, at |-> 0, val |-> NoVal, reaped |-> FALSE]

cacheEntry(v, t) == [val |-> v, createdAt |-> t]

\* (mutant) the store replaces the map by one holding the new entry alone
MapPutClobber(m, k, e) == [x \in {k} |-> e]

\* (mutant) the store keeps the entry a key already has
MapPutKeepOld(m, k, e) == [x \in (DOMAIN m) \cup {k} |-> IF x \in DOMAIN m THEN m[x] ELSE e]

\* c.cacheMap[key] = entry
MapPut(m, k, e) == [x \in (DOMAIN m) \cup {k} |-> IF x = k THEN e ELSE m[x]]

\* delete(c.cacheMap, key)
MapDelete(m, k) == [x \in (DOMAIN m) \ {k} |-> m[x]]

\* NewCache: an empty map, an unlocked mutex, and reapLoop started
NewCache ==
    /\ cacheMap = << >>
    /\ mu = NoThread
    /\ now = 0
    /\ ticker = Nil
    /\ reaper = [pc |-> "wait", tick |-> 0, todo |-> {}]
    /\ call = [t \in Threads |-> NoCall]
    /\ prev = [t \in Threads |-> NoPrev]
    /\ hist = [k \in Keys \cup {AreaURL, PokemonURL} |-> NoHist]
    /\ swept = 0
    /\ ops = 0

\* (mutant) the lock is taken without waiting for its holder
LockBarging(t) ==
    /\ call[t].pc = "lock"
    /\ mu' = t
    /\ call' = [call EXCEPT ![t].pc = "crit"]
    /\ UNCHANGED <<cacheMap, now, ticker, reaper, prev, hist, swept, ops>>
    /\ UNCHANGED pipeVars

\* c.mu.Lock(), by a thread inside Add or Get
Lock(t) ==
    /\ call[t].pc = "lock"
    /\ mu = NoThread
    /\ mu' = t
    /\ call' = [call EXCEPT ![t].pc = "crit"]
    /\ UNCHANGED <<cacheMap, now, ticker, reaper, prev, hist, swept, ops>>
    /\ UNCHANGED pipeVars

\* (mutant) Add keeps the time but not the payload
AddEntryDropsVal(v, t) == cacheEntry(NoVal, t)

\* the entry Add stores
AddEntry(v, t) == cacheEntry(v, t)

\* Add's body: entry := cacheEntry{val, time.Now()}; c.cacheMap[key] = entry
AddBody(t) ==
    /\ call[t].pc = "crit"
    /\ call[t].op = "Add"
    /\ mu = t
    /\ cacheMap' = MapPut(cacheMap, call[t].key, AddEntry(call[t].val, now))
    /\ hist' = [hist EXCEPT ![call[t].key] =
                   [by |-> t, at |-> now, val |-> call[t].val, reaped |-> FALSE]]
    /\ call' = [call EXCEPT ![t].pc = "unlock"]
    /\ UNCHANGED <<mu, now, ticker, reaper, prev, swept, ops>>
    /\ UNCHANGED pipeVars

\* (mutant) Get reports every key as present
GetResultAlwaysFound(m, k) ==
    IF k \in DOMAIN m THEN [val |-> m[k].val, found |-> TRUE]
    ELSE [val |-> NoVal, found |-> TRUE]

\* what Get returns for key k of map m
GetResult(m, k) ==
    IF k \in DOMAIN m THEN [val |-> m[k].val, found |-> TRUE]
    ELSE [val |-> NoVal, found |-> FALSE]

\* (mutant) Get deletes the entry it finds expired
GetBodyEvicts(t) ==
    /\ call[t].pc = "crit"
    /\ call[t].op = "Get"
    /\ mu = t
    /\ call' = [call EXCEPT ![t].pc = "unlock", ![t].ret = GetResult(cacheMap, call[t].key)]
    /\ cacheMap' = IF call[t].key \in DOMAIN cacheMap
                       /\ cacheMap[call[t].key].createdAt < now - Interval
                   THEN MapDelete(cacheMap, call[t].key)
                   ELSE cacheMap
    /\ UNCHANGED <<mu, now, ticker, reaper, prev, hist, swept, ops>>
    /\ UNCHANGED pipeVars

\* (mutant) Get reports an entry older than the interval as absent
GetBodyChecksAge(t) ==
    /\ call[t].pc = "crit"
    /\ call[t].op = "Get"
    /\ mu = t
    /\ call' = [call EXCEPT ![t].pc = "unlock",
                            ![t].ret = IF call[t].key \in DOMAIN cacheMap
                                          /\ cacheMap[call[t].key].createdAt < now - Interval
                                       THEN [val |-> NoVal, found |-> FALSE]
                                       ELSE GetResult(cacheMap, call[t].key)]
    /\ UNCHANGED <<cacheMap, mu, now, ticker, reaper, prev, hist, swept, ops>>
    /\ UNCHANGED pipeVars

\* Get's body: val, exists := c.cacheMap[key]
GetBody(t) ==
    /\ call[t].pc = "crit"
    /\ call[t].op = "Get"
    /\ mu = t
    /\ call' = [call EXCEPT ![t].pc = "unlock", ![t].ret = GetResult(cacheMap, call[t].key)]
    /\ UNCHANGED <<cacheMap, mu, now, ticker, reaper, prev, hist, swept, ops>>
    /\ UNCHANGED pipeVars

\* (mutant) the call returns with the mutex still locked
UnlockKeeps(t) ==
    /\ call[t].pc = "unlock"
    /\ mu = t
    /\ call' = [call EXCEPT ![t].pc = "ret"]
    /\ UNCHANGED <<cacheMap, mu, now, ticker, reaper, prev, hist, swept, ops>>
    /\ UNCHANGED pipeVars

\* the deferred c.mu.Unlock(); the call returns
Unlock(t) ==
    /\ call[t].pc = "unlock"
    /\ mu = t
    /\ mu' = NoThread
    /\ call' = [call EXCEPT ![t].pc = "ret"]
    /\ UNCHANGED <<cacheMap, now, ticker, reaper, prev, hist, swept, ops>>
    /\ UNCHANGED pipeVars

\* the clock advances; time.Tick delivers a tick every Interval, and drops
\* it when the previous one is still buffered
Tick ==
    /\ now < MaxTime
    /\ now' = now + 1
    /\ ticker' = IF (now + 1) % Interval = 0 /\ ticker = Nil THEN now + 1 ELSE ticker
    /\ UNCHANGED <<cacheMap, mu, reaper, call, prev, hist, swept, ops>>
    /\ UNCHANGED pipeVars

\* for range ticker: reapLoop receives a tick
ReapRecv ==
    /\ reaper.pc = "wait"
    /\ ticker # Nil
    /\ reaper' = [reaper EXCEPT !.pc = "lock", !.tick = ticker]
    /\ ticker' = Nil
    /\ UNCHANGED <<cacheMap, mu, now, call, prev, hist, swept, ops>>
    /\ UNCHANGED pipeVars

\* c.mu.Lock() in reapLoop; the range over the map starts
ReapLock ==
    /\ reaper.pc = "lock"
    /\ mu = NoThread
    /\ mu' = ReaperThread
    /\ reaper' = [reaper EXCEPT !.pc = "sweep", !.todo = DOMAIN cacheMap]
    /\ UNCHANGED <<cacheMap, now, ticker, call, prev, hist, swept, ops>>
    /\ UNCHANGED pipeVars

\* (mutant) the sweep compares with the current time, not the time one interval ago
ExpiredNoInterval(e, t) == e.createdAt < t

\* (mutant) the sweep also takes an entry whose age equals the interval
ExpiredInclusive(e, t) == e.createdAt <= t - Interval

\* value.createdAt.Before(time.Now().Add(-interval))
Expired(e, t) == e.createdAt < t - Interval

\* one iteration of the range: delete the entry if it is expired
ReapStep ==
    /\ reaper.pc = "sweep"
    /\ mu = ReaperThread
    /\ \E k \in reaper.todo :
        /\ reaper' = [reaper EXCEPT !.todo = reaper.todo \ {k}]
        /\ IF Expired(cacheMap[k], now)
           THEN /\ cacheMap' = MapDelete(cacheMap, k)
                /\ hist' = [hist EXCEPT ![k].reaped = TRUE]
           ELSE UNCHANGED <<cacheMap, hist>>
    /\ UNCHANGED <<mu, now, ticker, call, prev, swept, ops>>
    /\ UNCHANGED pipeVars

\* (mutant) the reaper goes back to waiting for a tick with the mutex still locked
ReapUnlockKeeps ==
    /\ reaper.pc = "sweep"
    /\ reaper.todo = {}
    /\ mu = ReaperThread
    /\ reaper' = [reaper EXCEPT !.pc = "wait"]
    /\ swept' = reaper.tick
    /\ UNCHANGED <<cacheMap, mu, now, ticker, call, prev, hist, ops>>
    /\ UNCHANGED pipeVars

\* the range is over: c.mu.Unlock(), back to waiting for a tick
ReapUnlock ==
    /\ reaper.pc = "sweep"
    /\ reaper.todo = {}
    /\ mu = ReaperThread
    /\ mu' = NoThread
    /\ reaper' = [reaper EXCEPT !.pc = "wait"]
    /\ swept' = reaper.tick
    /\ UNCHANGED <<cacheMap, now, ticker, call, prev, hist, ops>>
    /\ UNCHANGED pipeVars

(***************************************************************************)
(* The remote catalog and the bodies it serves.                            *)
(***************************************************************************)
Pages == 1..NumPages

\* the root listing URL main seeds config.Next with
RootURL == 1

\* the number of references on page i: later pages are shorter
RefCount(i) == IF PageSize > 2 * (i - 1) THEN PageSize - 2 * (i - 1) ELSE 0

\* the URL of reference j of page i
RefURL(i, j) == 10 * i + j

NextOf(i) == IF i < NumPages THEN i + 1 ELSE Nil

PreviousOf(i) == IF i > 1 THEN i - 1 ELSE Nil

\* the list document of page i: next, previous, then the references' URLs
PageBody(i) == <<NextOf(i), PreviousOf(i)>> \o [j \in 1..RefCount(i) |-> RefURL(i, j)]

\* the detail document of the resource at URL u: id, name
DetailBody(u) == <<u, u>>

\* a body that is no complete document
Junk == <<Nil>>

\* json.Unmarshal(data, &resourceList)
UnmarshalList(b) ==
    IF Len(b) < 2
    THEN [err |-> TRUE, Next |-> Nil, Previous |-> Nil, Results |-> <<>>]
    ELSE [err |-> FALSE, Next |-> b[1], Previous |-> b[2], Results |-> SubSeq(b, 3, Len(b))]

\* json.Unmarshal(detailBody, &locationArea)
UnmarshalArea(b) ==
    IF Len(b) < 2
    THEN [err |-> TRUE, ID |-> Nil]
    ELSE [err |-> FALSE, ID |-> b[1]]

\* what http.Get and io.ReadAll can come to: no response, a non-OK status,
\* a body that cannot be read, or an OK response with its body
Failures == {"transport", "status", "read"}

Response(kind, body) == [kind |-> kind, body |-> body]

ListResponses(u) ==
    {Response(f, NoVal) : f \in Failures}
        \cup {Response("ok", PageBody(u)), Response("ok", Junk)}

DetailResponses(u) ==
    {Response(f, NoVal) : f \in Failures}
        \cup {Response("ok", DetailBody(u)), Response("ok", Junk)}

(***************************************************************************)
(* The command loop: cmd/pokedex/main.go, and utils.GetLocationAreas       *)
(***************************************************************************)
NoList == [err |-> FALSE, Next |-> Nil, Previous |-> Nil, Results |-> <<>>]

NoGla == [direction |-> "none", url |-> Nil, body |-> NoVal, list |-> NoList]

NoChan == [buf |-> <<>>, closed |-> FALSE, cap |-> 0]

NoChans == [la |-> NoChan, er |-> NoChan]

NoColl == [areas |-> <<>>, errors |-> <<>>, laNil |-> FALSE, erNil |-> FALSE]

NoResult == [areas |-> <<>>, err |-> "none"]

\* the history of a command: which one, the cursor it started from, whether
\* the list lookup hit, the transport calls and cache calls made, the list
\* response, the decode attempts, the detail units dispatched and the
\* errors collected (failed counts the detail fetches that did fail)
NoH == [cmd |-> "none", before |-> [Next |-> Nil, Previous |-> Nil], url |-> Nil,
        hit |-> "none", listNet |-> 0, detailNet |-> 0, cacheCalls |-> 0,
        resp |-> "none", body |-> NoVal, decodes |-> 0, storedFirst |-> FALSE,
        listFailed |-> FALSE, next |-> Nil, previous |-> Nil,
        k |-> 0, failed |-> 0, errors |-> 0]

\* main: config := UrlConfig{Next: &initialUrl, Previous: nil}, at the prompt
MainInit ==
    /\ config = [Next |-> RootURL, Previous |-> Nil]
    /\ pc = "prompt"
    /\ gla = NoGla
    /\ tasks = <<>>
    /\ wg = 0
    /\ chans = NoChans
    /\ closer = "none"
    /\ coll = NoColl
    /\ result = NoResult
    /\ cmds = 0
    /\ h = NoH

\* no line has been read
NoRepl == [input |-> <<>>, cleanedInput |-> <<>>, pc |-> "scan"]

ReplIdle == repl = NoRepl

(***************************************************************************)
(* Direct clients of the cache: threads that call Add and Get freely.      *)
(***************************************************************************)
\* a thread between two calls
Returned(t) == call[t].pc \in {"idle", "ret"}

\* cache.Add(k, v) is called
CallAdd(t, k, v) ==
    /\ Returned(t)
    /\ prev' = [prev EXCEPT ![t] = [op |-> call[t].op, key |-> call[t].key, val |-> call[t].val]]
    /\ call' = [call EXCEPT ![t] = [op |-> "Add", key |-> k, val |-> v, pc |-> "lock", ret |-> NoRet]]

\* cache.Get(k) is called
CallGet(t, k) ==
    /\ Returned(t)
    /\ prev' = [prev EXCEPT ![t] = [op |-> call[t].op, key |-> call[t].key, val |-> call[t].val]]
    /\ call' = [call EXCEPT ![t] = [op |-> "Get", key |-> k, val |-> NoVal, pc |-> "lock", ret |-> NoRet]]

ClientAdd(t) ==
    /\ ops < MaxOps
    /\ ops' = ops + 1
    /\ \E k \in Keys, v \in Payloads : CallAdd(t, k, v)
    /\ UNCHANGED <<cacheMap, mu, now, ticker, reaper, hist, swept>>
    /\ UNCHANGED pipeVars

ClientGet(t) ==
    /\ ops < MaxOps
    /\ ops' = ops + 1
    /\ \E k \in Keys : CallGet(t, k)
    /\ UNCHANGED <<cacheMap, mu, now, ticker, reaper, hist, swept>>
    /\ UNCHANGED pipeVars

InitCache == NewCache /\ MainInit /\ ReplIdle

NextCache ==
    \/ ClientAdd(MainThread)
    \/ ClientGet(MainThread)
    \/ Lock(MainThread)
    \/ AddBody(MainThread)
    \/ GetBody(MainThread)
    \/ Unlock(MainThread)
    \/ Tick
    \/ ReapRecv
    \/ ReapLock
    \/ ReapStep
    \/ ReapUnlock

SpecCache == InitCache /\ [][NextCache]_vars

(***************************************************************************)
(* A concurrency harness: one worker per key adds its own payload under    *)
(* its own key; once every Add has returned, each worker gets its key.     *)
(***************************************************************************)
PayloadOf(t) == <<t>>

AllAdded == \A t \in Workers : call[t].op = "Get" \/ (call[t].op = "Add" /\ call[t].pc = "ret")

IsoAdd(t) ==
    /\ call[t].pc = "idle"
    /\ CallAdd(t, t, PayloadOf(t))
    /\ UNCHANGED <<cacheMap, mu, now, ticker, reaper, hist, swept, ops>>
    /\ UNCHANGED pipeVars

IsoGet(t) ==
    /\ AllAdded
    /\ call[t].op = "Add"
    /\ CallGet(t, t)
    /\ UNCHANGED <<cacheMap, mu, now, ticker, reaper, hist, swept, ops>>
    /\ UNCHANGED pipeVars

NextIso ==
    \/ \E t \in Workers : IsoAdd(t)
    \/ \E t \in Workers : IsoGet(t)
    \/ \E t \in Workers : Lock(t)
    \/ \E t \in Workers : AddBody(t)
    \/ \E t \in Workers : GetBody(t)
    \/ \E t \in Workers : Unlock(t)
    \/ Tick
    \/ ReapRecv
    \/ ReapLock
    \/ ReapStep
    \/ ReapUnlock

SpecIso == InitCache /\ [][NextIso]_vars

(***************************************************************************)
(* A caller that only stores: Add after Add, on any key, with the clock    *)
(* and the reaper running.                                                 *)
(***************************************************************************)
StoreAdd(t) ==
    /\ ops < MaxAdds
    /\ ops' = ops + 1
    /\ \E k \in Keys, v \in Payloads : CallAdd(t, k, v)
    /\ UNCHANGED <<cacheMap, mu, now, ticker, reaper, hist, swept>>
    /\ UNCHANGED pipeVars

NextStore ==
    \/ StoreAdd(MainThread)
    \/ Lock(MainThread)
    \/ AddBody(MainThread)
    \/ Unlock(MainThread)
    \/ Tick
    \/ ReapRecv
    \/ ReapLock
    \/ ReapStep
    \/ ReapUnlock

SpecStore == InitCache /\ [][NextStore]_vars

(***************************************************************************)
(* A caller that writes into its slices.  Add stores the []byte it is      *)
(* given and Get returns the []byte the entry holds, without copying: the  *)
(* slice the caller passed to its last Add, or received from its last Get, *)
(* shares its backing array with the entry as long as the entry is there.  *)
(***************************************************************************)
\* thread t has returned from a call that left a slice of the entry in its hands
HoldsSlice(t) ==
    /\ call[t].pc = "ret"
    /\ \/ call[t].op = "Add"
       \/ call[t].op = "Get" /\ call[t].ret.found

\* the caller overwrites the bytes of that slice: the entry's val, which is
\* the same array, changes with it
MutateSlice(t) ==
    /\ HoldsSlice(t)
    /\ call[t].key \in DOMAIN cacheMap
    /\ \E w \in Payloads \ {cacheMap[call[t].key].val} :
          cacheMap' = [cacheMap EXCEPT ![call[t].key].val = w]
    /\ UNCHANGED <<mu, now, ticker, reaper, call, prev, hist, swept, ops>>
    /\ UNCHANGED pipeVars

NextAlias ==
    \/ ClientAdd(MainThread)
    \/ ClientGet(MainThread)
    \/ Lock(MainThread)
    \/ AddBody(MainThread)
    \/ GetBody(MainThread)
    \/ Unlock(MainThread)
    \/ MutateSlice(MainThread)
    \/ Tick
    \/ ReapRecv
    \/ ReapLock
    \/ ReapStep
    \/ ReapUnlock

SpecAlias == InitCache /\ [][NextAlias]_vars

(***************************************************************************)
(* cleanInput: a line is a sequence of characters, a word likewise.        *)
(***************************************************************************)
\* the characters lines are made of: blanks, tabs, letters of both cases, a digit
Chars == {" ", "\t", "a", "B", "1"}

\* the characters strings.Fields splits at (unicode.IsSpace, in ASCII)
Whitespace == {" ", "\t", "\n", "\r", "\f"}

\* the lower case of a character
LowerChar(c) == CASE c = "A" -> "a" [] c = "B" -> "b" [] OTHER -> c

\* strings.ToLower(text)
ToLower(s) == [i \in 1..Len(s) |-> LowerChar(s[i])]

\* the first position from i on that holds no white space (Len(s) + 1 if none)
RECURSIVE SkipSpaces(_, _)
SkipSpaces(s, i) ==
    IF i > Len(s) \/ s[i] \notin Whitespace THEN i ELSE SkipSpaces(s, i + 1)

\* the first position from i on that holds white space (Len(s) + 1 if none)
RECURSIVE FieldEnd(_, _)
FieldEnd(s, i) ==
    IF i > Len(s) \/ s[i] \in Whitespace THEN i ELSE FieldEnd(s, i + 1)

\* the fields of s from position i on
RECURSIVE FieldsFrom(_, _)
FieldsFrom(s, i) ==
    LET a == SkipSpaces(s, i) IN
    IF a > Len(s) THEN <<>>
    ELSE <<SubSeq(s, a, FieldEnd(s, a) - 1)>> \o FieldsFrom(s, FieldEnd(s, a))

\* (mutant) the line is cut at every single blank, as strings.Split(s, " ") does
RECURSIVE SplitAtBlank(_)
SplitAtBlank(s) ==
    IF \A i \in 1..Len(s) : s[i] # " " THEN <<s>>
    ELSE LET b == CHOOSE i \in 1..Len(s) : s[i] = " " /\ \A j \in 1..(i - 1) : s[j] # " " IN
         <<SubSeq(s, 1, b - 1)>> \o SplitAtBlank(SubSeq(s, b + 1, Len(s)))

\* strings.Fields(s)
Fields(s) == FieldsFrom(s, 1)

\* cleanInput(text) = strings.Fields(strings.ToLower(text))
cleanInput(text) == Fields(ToLower(text))

\* the lines of at most MaxLen characters
RECURSIVE LinesOfLen(_)
LinesOfLen(n) ==
    IF n = 0 THEN {<<>>}
    ELSE {Append(l, c) : l \in LinesOfLen(n - 1), c \in Chars}

Lines == UNION {LinesOfLen(n) : n \in 0..MaxLen}

\* main: input := scanner.Text() has been read, for every line
InitClean ==
    /\ NewCache
    /\ MainInit
    /\ repl \in {[input |-> l, cleanedInput |-> <<>>, pc |-> "read"] : l \in Lines}

\* main: cleanedInput := cleanInput(input)
Clean ==
    /\ repl.pc = "read"
    /\ repl' = [repl EXCEPT !.cleanedInput = cleanInput(repl.input), !.pc = "cleaned"]
    /\ UNCHANGED <<cacheMap, mu, now, ticker, reaper, call, prev, hist, swept, ops>>
    /\ UNCHANGED <<config, pc, gla, tasks, wg, chans, closer, coll, result, cmds, h>>

NextClean == Clean

SpecClean == InitClean /\ [][NextClean]_vars

(***************************************************************************)
(* commandMap, commandMapb and GetLocationAreas, run by the main goroutine. *)
(***************************************************************************)
\* the cache's variables a cache call by main leaves to Lock .. Unlock
cacheRest == <<cacheMap, mu, now, ticker, reaper, hist, swept, ops>>

\* the variables of the fan-out
fanVars == <<tasks, wg, chans, closer, coll>>

\* return from GetLocationAreas (and from the command) with a list failure
ReturnError(cause) ==
    /\ result' = [areas |-> <<>>, err |-> cause]
    /\ pc' = "prompt"
    /\ gla' = NoGla

\* commandMap: GetLocationAreas(config, "forward", cache) is called
CommandMap ==
    /\ pc = "prompt"
    /\ cmds < MaxCmds
    /\ cmds' = cmds + 1
    /\ h' = [NoH EXCEPT !.cmd = "map", !.before = config]
    /\ gla' = [NoGla EXCEPT !.direction = "forward"]
    /\ result' = NoResult
    /\ pc' = "entry"
    /\ UNCHANGED <<config, call, prev>>
    /\ UNCHANGED cacheRest
    /\ UNCHANGED repl
    /\ UNCHANGED fanVars

\* (mutant) commandMapb calls GetLocationAreas whatever the cursor holds
MapbGuardNone(cfg) == TRUE

\* commandMapb: if config.Previous != nil
MapbGuard(cfg) == cfg.Previous # Nil

\* commandMapb: GetLocationAreas(config, "backward", cache) is called, or the
\* command returns errors.New("No previous page available.")
CommandMapb ==
    /\ pc = "prompt"
    /\ cmds < MaxCmds
    /\ cmds' = cmds + 1
    /\ h' = [NoH EXCEPT !.cmd = "mapb", !.before = config]
    /\ IF MapbGuard(config)
       THEN /\ gla' = [NoGla EXCEPT !.direction = "backward"]
            /\ result' = NoResult
            /\ pc' = "entry"
       ELSE /\ gla' = NoGla
            /\ result' = [areas |-> <<>>, err |-> "no previous page"]
            /\ pc' = "prompt"
    /\ UNCHANGED <<config, call, prev>>
    /\ UNCHANGED cacheRest
    /\ UNCHANGED repl
    /\ UNCHANGED fanVars

\* (mutant) the forward field is taken whatever the direction
SelectedAlwaysNext(cfg, d) == cfg.Next

\* listAPIURL = *config.Next or *config.Previous
Selected(cfg, d) == IF d = "forward" THEN cfg.Next ELSE cfg.Previous

\* GetLocationAreas dereferences the cursor field of its direction (a nil
\* pointer panics) and calls cache.Get(listAPIURL)
SelectURL ==
    /\ pc = "entry"
    /\ LET u == Selected(config, gla.direction) IN
        IF u = Nil
        THEN /\ pc' = "panic"
             /\ UNCHANGED <<gla, h, call, prev>>
        ELSE /\ pc' = "lookup"
             /\ gla' = [gla EXCEPT !.url = u]
             /\ h' = [h EXCEPT !.url = u, !.cacheCalls = @ + 1]
             /\ CallGet(MainThread, u)
    /\ UNCHANGED <<config, result, cmds>>
    /\ UNCHANGED cacheRest
    /\ UNCHANGED repl
    /\ UNCHANGED fanVars

\* if exists: json.Unmarshal(data, &resourceList)
ListHit ==
    /\ pc = "lookup"
    /\ call[MainThread].pc = "ret"
    /\ call[MainThread].ret.found
    /\ LET l == UnmarshalList(call[MainThread].ret.val) IN
        IF l.err
        THEN /\ ReturnError("decode")
             /\ h' = [h EXCEPT !.hit = "hit", !.decodes = @ + 1, !.listFailed = TRUE]
        ELSE /\ pc' = "decoded"
             /\ gla' = [gla EXCEPT !.list = l]
             /\ h' = [h EXCEPT !.hit = "hit", !.decodes = @ + 1,
                               !.next = l.Next, !.previous = l.Previous]
             /\ UNCHANGED result
    /\ UNCHANGED <<config, cmds, call, prev>>
    /\ UNCHANGED cacheRest
    /\ UNCHANGED repl
    /\ UNCHANGED fanVars

\* else: http.Get(listAPIURL) is called
ListMiss ==
    /\ pc = "lookup"
    /\ call[MainThread].pc = "ret"
    /\ ~call[MainThread].ret.found
    /\ pc' = "http"
    /\ h' = [h EXCEPT !.hit = "miss", !.listNet = @ + 1]
    /\ UNCHANGED <<config, gla, result, cmds, call, prev>>
    /\ UNCHANGED cacheRest
    /\ UNCHANGED repl
    /\ UNCHANGED fanVars

\* (mutant) only the error of http.Get is checked
ListFetchFailedErrOnly(r) == r.kind = "transport"

\* the checks GetLocationAreas makes on the list response: err, StatusCode, ReadAll
ListFetchFailed(r) == r.kind # "ok"

\* (mutant) the body is decoded before it is stored: a body that is no
\* document returns the decode error and is not cached
ListResponseDecodesFirst ==
    /\ pc = "http"
    /\ \E r \in ListResponses(gla.url) :
        IF ListFetchFailed(r)
        THEN /\ ReturnError(r.kind)
             /\ h' = [h EXCEPT !.resp = r.kind, !.listFailed = TRUE]
             /\ UNCHANGED <<call, prev>>
        ELSE IF UnmarshalList(r.body).err
        THEN /\ ReturnError("decode")
             /\ h' = [h EXCEPT !.resp = r.kind, !.body = r.body, !.decodes = @ + 1,
                               !.listFailed = TRUE]
             /\ UNCHANGED <<call, prev>>
        ELSE /\ pc' = "store"
             /\ gla' = [gla EXCEPT !.body = r.body]
             /\ h' = [h EXCEPT !.resp = r.kind, !.body = r.body, !.cacheCalls = @ + 1]
             /\ CallAdd(MainThread, gla.url, r.body)
             /\ UNCHANGED result
    /\ UNCHANGED <<config, cmds>>
    /\ UNCHANGED cacheRest
    /\ UNCHANGED repl
    /\ UNCHANGED fanVars

\* the response arrives: an error, a non-OK status or an unreadable body
\* returns the error; otherwise cache.Add(listAPIURL, body) is called
ListResponse ==
    /\ pc = "http"
    /\ \E r \in ListResponses(gla.url) :
        IF ListFetchFailed(r)
        THEN /\ ReturnError(r.kind)
             /\ h' = [h EXCEPT !.resp = r.kind, !.listFailed = TRUE]
             /\ UNCHANGED <<call, prev>>
        ELSE /\ pc' = "store"
             /\ gla' = [gla EXCEPT !.body = r.body]
             /\ h' = [h EXCEPT !.resp = r.kind, !.body = r.body, !.cacheCalls = @ + 1]
             /\ CallAdd(MainThread, gla.url, r.body)
             /\ UNCHANGED result
    /\ UNCHANGED <<config, cmds>>
    /\ UNCHANGED cacheRest
    /\ UNCHANGED repl
    /\ UNCHANGED fanVars

\* (mutant) the cursor is assigned from the decoded document before the
\* decode error is looked at
ListDecodeCursorFirst ==
    /\ pc = "store"
    /\ call[MainThread].pc = "ret"
    /\ LET l == UnmarshalList(gla.body)
           stored == gla.url \in DOMAIN cacheMap /\ cacheMap[gla.url].val = gla.body
       IN
        /\ config' = [Next |-> l.Next, Previous |-> l.Previous]
        /\ IF l.err
           THEN /\ ReturnError("decode")
                /\ h' = [h EXCEPT !.decodes = @ + 1, !.storedFirst = stored, !.listFailed = TRUE]
           ELSE /\ pc' = "decoded"
                /\ gla' = [gla EXCEPT !.list = l]
                /\ h' = [h EXCEPT !.decodes = @ + 1, !.storedFirst = stored,
                                  !.next = l.Next, !.previous = l.Previous]
                /\ UNCHANGED result
    /\ UNCHANGED <<cmds, call, prev>>
    /\ UNCHANGED cacheRest
    /\ UNCHANGED repl
    /\ UNCHANGED fanVars

\* Add has returned: json.Unmarshal(body, &resourceList)
ListDecode ==
    /\ pc = "store"
    /\ call[MainThread].pc = "ret"
    /\ LET l == UnmarshalList(gla.body)
           stored == gla.url \in DOMAIN cacheMap /\ cacheMap[gla.url].val = gla.body
       IN
        IF l.err
        THEN /\ ReturnError("decode")
             /\ h' = [h EXCEPT !.decodes = @ + 1, !.storedFirst = stored, !.listFailed = TRUE]
        ELSE /\ pc' = "decoded"
             /\ gla' = [gla EXCEPT !.list = l]
             /\ h' = [h EXCEPT !.decodes = @ + 1, !.storedFirst = stored,
                               !.next = l.Next, !.previous = l.Previous]
             /\ UNCHANGED result
    /\ UNCHANGED <<config, cmds, call, prev>>
    /\ UNCHANGED cacheRest
    /\ UNCHANGED repl
    /\ UNCHANGED fanVars

\* (mutant) the cursor is updated with the two fields swapped
NewConfigSwapped(l) == [Next |-> l.Previous, Previous |-> l.Next]

\* config.Next = resourceList.Next; config.Previous = resourceList.Previous
NewConfig(l) == [Next |-> l.Next, Previous |-> l.Previous]

\* (mutant) the channels have room for one outcome less than there are goroutines
MakeChanShort(n) == [buf |-> <<>>, closed |-> FALSE, cap |-> n - 1]

\* make(chan ..., len(resourceList.Results))
MakeChan(n) == [buf |-> <<>>, closed |-> FALSE, cap |-> n]

\* the cursor is updated; the channels are made; one goroutine per reference
\* is started after wg.Add(1), and then the goroutine that closes the channels
Dispatch ==
    /\ pc = "decoded"
    /\ LET refs == gla.list.Results IN
        /\ config' = NewConfig(gla.list)
        /\ tasks' = [i \in 1..Len(refs) |-> [url |-> refs[i], pc |-> "http"]]
        /\ wg' = Len(refs)
        /\ chans' = [la |-> MakeChan(Len(refs)), er |-> MakeChan(Len(refs))]
        /\ h' = [h EXCEPT !.k = Len(refs)]
    /\ closer' = "wait"
    /\ coll' = NoColl
    /\ pc' = "collect"
    /\ UNCHANGED <<gla, result, cmds, call, prev>>
    /\ UNCHANGED cacheRest
    /\ UNCHANGED repl

\* a detail fetch fails on a transport error, a non-OK status, an unreadable
\* body or a body that does not decode
DetailFailed(r) == r.kind # "ok" \/ UnmarshalArea(r.body).err

\* (mutant) the goroutine sends what it decoded without looking at the decode error
DetailOutcomeNoDecodeCheck(u, r) ==
    IF r.kind # "ok" THEN [ch |-> "er", msg |-> [url |-> u, cause |-> r.kind]]
    ELSE [ch |-> "la", msg |-> [url |-> UnmarshalArea(r.body).ID, cause |-> "none"]]

\* the outcome of one detail fetch: the channel it is sent on and the message
DetailOutcome(u, r) ==
    LET a == UnmarshalArea(r.body) IN
    IF r.kind # "ok" THEN [ch |-> "er", msg |-> [url |-> u, cause |-> r.kind]]
    ELSE IF a.err THEN [ch |-> "er", msg |-> [url |-> u, cause |-> "decode"]]
    ELSE [ch |-> "la", msg |-> [url |-> a.ID, cause |-> "none"]]

\* (mutant) a goroutine whose fetch failed requests the URL again
TaskFetchRetries(i) ==
    /\ pc = "collect"
    /\ tasks[i].pc = "http"
    /\ \E r \in DetailResponses(tasks[i].url) :
        LET o == DetailOutcome(tasks[i].url, r) IN
        IF DetailFailed(r)
        THEN /\ h' = [h EXCEPT !.detailNet = @ + 1]
             /\ UNCHANGED <<chans, tasks, pc>>
        ELSE /\ ~chans[o.ch].closed
             /\ Len(chans[o.ch].buf) < chans[o.ch].cap
             /\ chans' = [chans EXCEPT ![o.ch].buf = Append(@, o.msg)]
             /\ tasks' = [tasks EXCEPT ![i].pc = "sent"]
             /\ h' = [h EXCEPT !.detailNet = @ + 1]
             /\ UNCHANGED pc
    /\ UNCHANGED <<config, gla, wg, closer, coll, result, cmds, call, prev>>
    /\ UNCHANGED cacheRest
    /\ UNCHANGED repl

\* a detail goroutine: http.Get(url) returns, the response is checked, read
\* and decoded, and the outcome is sent on errorCh or locationAreaCh (the
\* send waits while the buffer is full, and panics on a closed channel)
TaskFetch(i) ==
    /\ pc = "collect"
    /\ tasks[i].pc = "http"
    /\ \E r \in DetailResponses(tasks[i].url) :
        LET o == DetailOutcome(tasks[i].url, r) IN
        IF chans[o.ch].closed
        THEN /\ pc' = "panic"
             /\ UNCHANGED <<chans, tasks, h>>
        ELSE /\ Len(chans[o.ch].buf) < chans[o.ch].cap
             /\ chans' = [chans EXCEPT ![o.ch].buf = Append(@, o.msg)]
             /\ tasks' = [tasks EXCEPT ![i].pc = "sent"]
             /\ h' = [h EXCEPT !.detailNet = @ + 1,
                               !.failed = IF DetailFailed(r) THEN @ + 1 ELSE @]
             /\ UNCHANGED pc
    /\ UNCHANGED <<config, gla, wg, closer, coll, result, cmds, call, prev>>
    /\ UNCHANGED cacheRest
    /\ UNCHANGED repl

\* the goroutine's deferred wg.Done()
TaskDone(i) ==
    /\ pc = "collect"
    /\ tasks[i].pc = "sent"
    /\ tasks' = [tasks EXCEPT ![i].pc = "done"]
    /\ wg' = wg - 1
    /\ UNCHANGED <<config, pc, gla, chans, closer, coll, result, cmds, h, call, prev>>
    /\ UNCHANGED cacheRest
    /\ UNCHANGED repl

\* (mutant) the closing goroutine does not wait for the WaitGroup
CloserNoWait ==
    /\ pc = "collect"
    /\ closer = "wait"
    /\ chans' = [chans EXCEPT !.la.closed = TRUE]
    /\ closer' = "closing"
    /\ UNCHANGED <<config, pc, gla, tasks, wg, coll, result, cmds, h, call, prev>>
    /\ UNCHANGED cacheRest
    /\ UNCHANGED repl

\* wg.Wait() returns; close(locationAreaCh)
CloserWait ==
    /\ pc = "collect"
    /\ closer = "wait"
    /\ wg = 0
    /\ chans' = [chans EXCEPT !.la.closed = TRUE]
    /\ closer' = "closing"
    /\ UNCHANGED <<config, pc, gla, tasks, wg, coll, result, cmds, h, call, prev>>
    /\ UNCHANGED cacheRest
    /\ UNCHANGED repl

\* (mutant) the closing goroutine ends without closing errorCh
CloserCloseSkips ==
    /\ pc = "collect"
    /\ closer = "closing"
    /\ closer' = "done"
    /\ UNCHANGED <<config, pc, gla, tasks, wg, chans, coll, result, cmds, h, call, prev>>
    /\ UNCHANGED cacheRest
    /\ UNCHANGED repl

\* close(errorCh)
CloserClose ==
    /\ pc = "collect"
    /\ closer = "closing"
    /\ chans' = [chans EXCEPT !.er.closed = TRUE]
    /\ closer' = "done"
    /\ UNCHANGED <<config, pc, gla, tasks, wg, coll, result, cmds, h, call, prev>>
    /\ UNCHANGED cacheRest
    /\ UNCHANGED repl

\* (mutant) collected errors are returned as the call's error
FinalErrorIfAny(errors) == IF Len(errors) > 0 THEN "detail" ELSE "nil"

\* the top-level error GetLocationAreas returns after the collection loop
FinalError(errors) == "nil"

\* after a select case: if both channel variables are nil the loop ends, the
\* summary is printed and GetLocationAreas returns allLocationAreas, nil
AfterSelect(c) ==
    IF c.laNil /\ c.erNil
    THEN /\ result' = [areas |-> c.areas, err |-> FinalError(c.errors)]
         /\ h' = [h EXCEPT !.errors = Len(c.errors)]
         /\ pc' = "prompt"
         /\ gla' = NoGla
         /\ tasks' = <<>>
         /\ closer' = "none"
         /\ coll' = NoColl
         /\ chans' = NoChans
    ELSE /\ coll' = c
         /\ UNCHANGED <<result, h, pc, gla, tasks, closer, chans>>

\* case la, ok := <-locationAreaCh, with ok: append
RecvArea ==
    /\ pc = "collect"
    /\ ~coll.laNil
    /\ Len(chans.la.buf) > 0
    /\ coll' = [coll EXCEPT !.areas = Append(@, Head(chans.la.buf))]
    /\ chans' = [chans EXCEPT !.la.buf = Tail(@)]
    /\ UNCHANGED <<config, pc, gla, tasks, wg, closer, result, cmds, h, call, prev>>
    /\ UNCHANGED cacheRest
    /\ UNCHANGED repl

\* case err, ok := <-errorCh, with ok: append
RecvError ==
    /\ pc = "collect"
    /\ ~coll.erNil
    /\ Len(chans.er.buf) > 0
    /\ coll' = [coll EXCEPT !.errors = Append(@, Head(chans.er.buf))]
    /\ chans' = [chans EXCEPT !.er.buf = Tail(@)]
    /\ UNCHANGED <<config, pc, gla, tasks, wg, closer, result, cmds, h, call, prev>>
    /\ UNCHANGED cacheRest
    /\ UNCHANGED repl

\* case la, ok := <-locationAreaCh, closed and empty: locationAreaCh = nil
RecvAreaClosed ==
    /\ pc = "collect"
    /\ ~coll.laNil
    /\ Len(chans.la.buf) = 0
    /\ chans.la.closed
    /\ AfterSelect([coll EXCEPT !.laNil = TRUE])
    /\ UNCHANGED <<config, wg, cmds, call, prev>>
    /\ UNCHANGED cacheRest
    /\ UNCHANGED repl

\* case err, ok := <-errorCh, closed and empty: errorCh = nil
RecvErrorClosed ==
    /\ pc = "collect"
    /\ ~coll.erNil
    /\ Len(chans.er.buf) = 0
    /\ chans.er.closed
    /\ AfterSelect([coll EXCEPT !.erNil = TRUE])
    /\ UNCHANGED <<config, wg, cmds, call, prev>>
    /\ UNCHANGED cacheRest
    /\ UNCHANGED repl

Init == NewCache /\ MainInit /\ ReplIdle

\* the commands typed in the first reaper interval after start: the clock
\* does not reach the first tick
Next ==
    \/ CommandMap
    \/ CommandMapb
    \/ SelectURL
    \/ Lock(MainThread)
    \/ GetBody(MainThread)
    \/ AddBody(MainThread)
    \/ Unlock(MainThread)
    \/ ListHit
    \/ ListMiss
    \/ ListResponse
    \/ ListDecode
    \/ Dispatch
    \/ \E i \in DOMAIN tasks : TaskFetch(i)
    \/ \E i \in DOMAIN tasks : TaskDone(i)
    \/ CloserWait
    \/ CloserClose
    \/ RecvArea
    \/ RecvError
    \/ RecvAreaClosed
    \/ RecvErrorClosed

Spec == Init /\ [][Next]_vars

(***************************************************************************)
(* The command loop with the clock and the reaper running.  The fan-out    *)
(* of GetLocationAreas reads neither the cache nor the clock: here it is   *)
(* two steps, the start of the fetches and the return with what was        *)
(* collected.  SpecTTL has the commands map and mapb; SpecNet has explore  *)
(* and catch as well, in sessions that either page through the catalog or *)
(* look resources up.                                                      *)
(***************************************************************************)
\* the records of the references whose detail fetch succeeded
AreasOf(refs, ok) ==
    LET sel == SelectSeq([i \in 1..Len(refs) |-> i], LAMBDA i : i \in ok) IN
    [j \in 1..Len(sel) |-> [url |-> refs[sel[j]], cause |-> "none"]]

\* the cursor is updated and one goroutine per reference is started: their
\* http.Get calls are in flight
FanOutStart ==
    /\ pc = "decoded"
    /\ config' = NewConfig(gla.list)
    /\ h' = [h EXCEPT !.k = Len(gla.list.Results)]
    /\ pc' = "fetching"
    /\ UNCHANGED <<gla, result, cmds, call, prev>>
    /\ UNCHANGED cacheRest
    /\ UNCHANGED repl
    /\ UNCHANGED fanVars

\* every fetch has ended, some with success; the outcomes are collected and
\* GetLocationAreas returns the records and a nil error
FanOutEnd ==
    /\ pc = "fetching"
    /\ LET refs == gla.list.Results IN
        \E ok \in SUBSET (1..Len(refs)) :
            /\ result' = [areas |-> AreasOf(refs, ok), err |-> FinalError(<<>>)]
            /\ h' = [h EXCEPT !.detailNet = Len(refs),
                              !.failed = Len(refs) - Cardinality(ok),
                              !.errors = Len(refs) - Cardinality(ok)]
    /\ pc' = "prompt"
    /\ gla' = NoGla
    /\ UNCHANGED <<config, cmds, call, prev>>
    /\ UNCHANGED cacheRest
    /\ UNCHANGED repl
    /\ UNCHANGED fanVars

\* commandExplore / commandCatch: ExploreArea or CatchPokemon is called and
\* calls cache.Get(apiURL)
CommandLookup(cmd, u) ==
    /\ pc = "prompt"
    /\ cmds < MaxCmds
    /\ cmds' = cmds + 1
    /\ h' = [NoH EXCEPT !.cmd = cmd, !.before = config, !.cacheCalls = 1]
    /\ gla' = NoGla
    /\ result' = NoResult
    /\ CallGet(MainThread, u)
    /\ pc' = "xlookup"
    /\ UNCHANGED config
    /\ UNCHANGED cacheRest
    /\ UNCHANGED repl
    /\ UNCHANGED fanVars

CommandExplore == CommandLookup("explore", AreaURL)

CommandCatch == CommandLookup("catch", PokemonURL)

\* the function returns err, or nil after a body that decodes
LookupReturn(cause) ==
    /\ result' = [areas |-> <<>>, err |-> cause]
    /\ pc' = "prompt"

\* if exists: body = data; json.Unmarshal(body, ...); return
LookupHit ==
    /\ pc = "xlookup"
    /\ call[MainThread].pc = "ret"
    /\ call[MainThread].ret.found
    /\ LookupReturn(IF UnmarshalArea(call[MainThread].ret.val).err THEN "decode" ELSE "nil")
    /\ UNCHANGED <<config, gla, cmds, h, call, prev>>
    /\ UNCHANGED cacheRest
    /\ UNCHANGED repl
    /\ UNCHANGED fanVars

\* else: http.Get(apiURL) is called
LookupMiss ==
    /\ pc = "xlookup"
    /\ call[MainThread].pc = "ret"
    /\ ~call[MainThread].ret.found
    /\ pc' = "xhttp"
    /\ UNCHANGED <<config, gla, result, cmds, h, call, prev>>
    /\ UNCHANGED cacheRest
    /\ UNCHANGED repl
    /\ UNCHANGED fanVars

\* the response arrives: an error, a non-OK status or an unreadable body
\* returns the error; otherwise cache.Add(apiURL, body) is called
LookupResponse ==
    /\ pc = "xhttp"
    /\ \E r \in DetailResponses(call[MainThread].key) :
        IF r.kind # "ok"
        THEN /\ LookupReturn(r.kind)
             /\ UNCHANGED <<h, call, prev>>
        ELSE /\ CallAdd(MainThread, call[MainThread].key, r.body)
             /\ h' = [h EXCEPT !.cacheCalls = @ + 1]
             /\ pc' = "xstore"
             /\ UNCHANGED result
    /\ UNCHANGED <<config, gla, cmds>>
    /\ UNCHANGED cacheRest
    /\ UNCHANGED repl
    /\ UNCHANGED fanVars

\* cache.Add has returned: json.Unmarshal(body, ...); return
LookupStored ==
    /\ pc = "xstore"
    /\ call[MainThread].pc = "ret"
    /\ LookupReturn(IF UnmarshalArea(call[MainThread].val).err THEN "decode" ELSE "nil")
    /\ UNCHANGED <<config, gla, cmds, h, call, prev>>
    /\ UNCHANGED cacheRest
    /\ UNCHANGED repl
    /\ UNCHANGED fanVars

NextTTL ==
    \/ CommandMap
    \/ CommandMapb
    \/ SelectURL
    \/ Lock(MainThread)
    \/ GetBody(MainThread)
    \/ AddBody(MainThread)
    \/ Unlock(MainThread)
    \/ ListHit
    \/ ListMiss
    \/ ListResponse
    \/ ListDecode
    \/ FanOutStart
    \/ FanOutEnd
    \/ Tick
    \/ ReapRecv
    \/ ReapLock
    \/ ReapStep
    \/ ReapUnlock

SpecTTL == Init /\ [][NextTTL]_vars

\* the session so far has typed only commands of the set kinds
SessionOf(kinds) == h.cmd \in kinds \cup {"none"}

SessionMap == SessionOf({"map", "mapb"}) /\ CommandMap

SessionMapb == SessionOf({"map", "mapb"}) /\ CommandMapb

SessionExplore == SessionOf({"explore", "catch"}) /\ CommandExplore

SessionCatch == SessionOf({"explore", "catch"}) /\ CommandCatch

NextNet ==
    \/ SessionMap
    \/ SessionMapb
    \/ SessionExplore
    \/ SessionCatch
    \/ SelectURL
    \/ Lock(MainThread)
    \/ GetBody(MainThread)
    \/ AddBody(MainThread)
    \/ Unlock(MainThread)
    \/ ListHit
    \/ ListMiss
    \/ ListResponse
    \/ ListDecode
    \/ FanOutStart
    \/ FanOutEnd
    \/ LookupHit
    \/ LookupMiss
    \/ LookupResponse
    \/ LookupStored
    \/ Tick
    \/ ReapRecv
    \/ ReapLock
    \/ ReapStep
    \/ ReapUnlock

SpecNet == Init /\ [][NextNet]_vars

(***************************************************************************)
(* Claims about the cache.                                                 *)
(***************************************************************************)
\* thread t has returned from a Get that directly followed its own Add of the
\* same key, and that Add is still the last event on the key
GotOwnAdd(t) ==
    /\ call[t].op = "Get"
    /\ call[t].pc = "ret"
    /\ prev[t].op = "Add"
    /\ prev[t].key = call[t].key
    /\ hist[call[t].key].by = t
    /\ ~hist[call[t].key].reaped

\* C1: Add(k, p) followed immediately by Get(k), with no other Add on k and no
\* sweep removing the entry in between, returns (p, true).
C1_RoundTrip ==
    \A t \in Threads :
        GotOwnAdd(t) => call[t].ret = [val |-> prev[t].val, found |-> TRUE]

\* C1's case: a Get after an Add has returned, and the reaper has swept meanwhile
C1_Witness ==
    \E t \in Threads : GotOwnAdd(t) /\ call[t].ret.found /\ swept > hist[call[t].key].at

\* thread t has returned from a Get of a key no Add has ever stored
GotNeverAdded(t) ==
    /\ call[t].op = "Get"
    /\ call[t].pc = "ret"
    /\ hist[call[t].key].by = NoThread

\* C2: Get(k) on a key for which Add was never called returns found = false and
\* a nil payload.
C2_CacheMiss ==
    \A t \in Threads :
        GotNeverAdded(t) => call[t].ret = [val |-> NoVal, found |-> FALSE]

\* C2's case: a miss on one key while the cache holds another
C2_Witness ==
    \E t \in Threads : GotNeverAdded(t) /\ ~call[t].ret.found /\ DOMAIN cacheMap # {}

\* key k was added, and not since the time t held in hist[k].at
Added(k) == hist[k].by # NoThread

\* C3: an entry added at time t and not re-added is present at time t + d/2
\* (and at every earlier time), and is absent in every state after the
\* reaper's first tick after t + d, that is, once the sweep reapLoop runs for
\* that tick has completed (swept is that tick's time).
C3_TTLEviction ==
    \A k \in Keys :
        Added(k) =>
            /\ (2 * now <= 2 * hist[k].at + Interval =>
                    k \in DOMAIN cacheMap /\ cacheMap[k].val = hist[k].val)
            /\ (swept > hist[k].at + Interval => k \notin DOMAIN cacheMap)

\* C3's case: an entry survived a sweep before its time and a later sweep removed it
C3_Witness ==
    \E k \in Keys :
        /\ Added(k)
        /\ hist[k].reaped
        /\ hist[k].at > 0
        /\ swept > hist[k].at + Interval
        /\ k \notin DOMAIN cacheMap

\* C4: after N concurrent Adds on N distinct keys have all returned, each of N
\* concurrent Gets returns found = true with the payload added for its key,
\* and the map holds every key's own payload, as long as no sweep has removed
\* the entry.
C4_Isolation ==
    /\ \A t \in Workers :
          (call[t].op = "Get" /\ call[t].pc = "ret" /\ ~hist[t].reaped)
              => call[t].ret = [val |-> PayloadOf(t), found |-> TRUE]
    /\ AllAdded =>
          \A k \in Workers :
              ~hist[k].reaped => k \in DOMAIN cacheMap /\ cacheMap[k].val = PayloadOf(k)

\* C4's case: every worker's Get has returned its payload, with the reaper running
C4_Witness ==
    /\ \A t \in Workers : call[t].op = "Get" /\ call[t].pc = "ret" /\ call[t].ret.found
    /\ swept > 0

(***************************************************************************)
(* Claims about the fetch pipeline.                                        *)
(***************************************************************************)
\* GetLocationAreas was called by the current command and has returned
GlaReturned == pc = "prompt" /\ h.url # Nil

\* the list page of the current command resolved and decoded
ListResolved == h.decodes = 1 /\ ~h.listFailed

\* the current command's call resolved its list page and has returned
Completed == GlaReturned /\ ListResolved

\* C5: when the list page resolves with K references and M < K detail
\* fetches fail, GetLocationAreas returns K - M records, collects M errors and
\* returns a nil error, in every completion order.
C5_FanOutComplete ==
    (Completed /\ h.failed < h.k) =>
        /\ Len(result.areas) = h.k - h.failed
        /\ h.errors = h.failed
        /\ result.err = "nil"

\* C5's case: a page of two references, one fetch failed and one succeeded
C5_Witness ==
    /\ Completed
    /\ h.k = PageSize
    /\ h.failed = 1
    /\ Len(result.areas) = PageSize - 1
    /\ h.errors = 1

\* C6: if resolving the list page fails, GetLocationAreas returns no records
\* and a non-nil error, and the cache holds no entry for the list URL.
C6_ListFatality ==
    (GlaReturned /\ h.listFailed) =>
        /\ result.areas = <<>>
        /\ result.err \notin {"nil", "none"}
        /\ h.url \notin DOMAIN cacheMap

\* C7: with cursor.Previous nil, commandMapb returns the "no previous page"
\* error with no transport call and no cache call, and GetLocationAreas is
\* never entered with direction backward and a nil Previous.
C7_PaginationGuard ==
    /\ (h.cmd = "mapb" /\ h.before.Previous = Nil) =>
          /\ pc = "prompt"
          /\ result = [areas |-> <<>>, err |-> "no previous page"]
          /\ h.listNet = 0
          /\ h.detailNet = 0
          /\ h.cacheCalls = 0
          /\ config = h.before
    /\ (pc = "entry" /\ gla.direction = "backward") => config.Previous # Nil

\* C7's case: mapb was refused while the cache held a page
C7_Witness ==
    /\ h.cmd = "mapb"
    /\ h.before.Previous = Nil
    /\ result.err = "no previous page"
    /\ DOMAIN cacheMap # {}

\* C8: once the list page has resolved and decoded with next = X and
\* previous = Y, the cursor holds Next = X and Previous = Y, through the
\* fan-out and when the call returns, however many detail fetches fail.
C8_CursorUpdate ==
    (ListResolved /\ pc \in {"collect", "prompt"}) =>
        /\ config = [Next |-> h.next, Previous |-> h.previous]
        /\ config = [Next |-> NextOf(h.url), Previous |-> PreviousOf(h.url)]

\* C8's case: a call moved the cursor although every detail fetch failed
C8_Witness ==
    /\ Completed
    /\ h.k > 0
    /\ h.failed = h.k
    /\ config.Next # h.before.Next
    /\ config.Next # config.Previous

\* C9: GetLocationAreas returns a non-nil error if and only if resolving the
\* list page failed; when every detail fetch fails it returns no records and a
\* nil error.
C9_ErrorIffListFailed ==
    GlaReturned =>
        /\ result.err # "none"
        /\ (result.err # "nil") <=> h.listFailed
        /\ (ListResolved /\ h.failed = h.k) => (result.areas = <<>> /\ result.err = "nil")

\* C9's case: both detail fetches of a page failed and the call returned nil
C9_Witness ==
    /\ Completed
    /\ h.k = PageSize
    /\ h.failed = h.k
    /\ h.errors = h.k
    /\ result = [areas |-> <<>>, err |-> "nil"]

\* C10: on a cache hit for the list URL GetLocationAreas decodes the cached
\* bytes and makes no transport call for it; on a miss it makes exactly one
\* transport call, stores nothing unless the status is OK and the body was
\* read, and then stores the raw body under the list URL before decoding it.
C10_ListCacheRule ==
    /\ h.hit = "hit" =>
          /\ h.listNet = 0
          /\ h.decodes = 1
          /\ h.url \in DOMAIN cacheMap
          /\ h.listFailed = UnmarshalList(cacheMap[h.url].val).err
          /\ ~h.listFailed =>
                /\ h.next = UnmarshalList(cacheMap[h.url].val).Next
                /\ h.previous = UnmarshalList(cacheMap[h.url].val).Previous
    /\ h.hit = "miss" =>
          /\ h.listNet = 1
          /\ h.resp \in Failures \cup {"none"} =>
                (h.url \notin DOMAIN cacheMap /\ h.cacheCalls = 1 /\ h.decodes = 0)
          /\ h.decodes > 0 =>
                /\ h.resp = "ok"
                /\ h.decodes = 1
                /\ h.storedFirst
                /\ h.url \in DOMAIN cacheMap
                /\ cacheMap[h.url].val = h.body

\* C10's case: a page fetched before is served from the cache and decodes
C10_Witness ==
    /\ Completed
    /\ h.hit = "hit"
    /\ h.listNet = 0
    /\ cmds > 1

\* the cache calls the list phase of a completed call makes: Get, and Add
\* after a miss
ListCacheCalls == IF h.hit = "miss" THEN 2 ELSE 1

\* C11: every detail fetch of GetLocationAreas consults the cache for its
\* reference URL (one cache call per reference on top of the list's), and
\* the raw body of every detail resource it fetched and decoded is in the
\* cache under that URL when the call returns.
C11_DetailCacheRule ==
    Completed =>
        /\ h.cacheCalls >= ListCacheCalls + h.k
        /\ \A i \in 1..Len(result.areas) :
              /\ result.areas[i].url \in DOMAIN cacheMap
              /\ cacheMap[result.areas[i].url].val = DetailBody(result.areas[i].url)

\* every dispatched goroutine has sent its outcome and called wg.Done()
AllDone == wg = 0 /\ \A i \in DOMAIN tasks : tasks[i].pc = "done"

\* the collection loop ends and GetLocationAreas returns
LoopReturns == pc = "collect" /\ pc' = "prompt"

\* C12: a result channel is closed only after all K goroutines have called
\* Done; no goroutine sends on a closed channel (the panic of such a send
\* never happens); and the collection loop ends, and GetLocationAreas
\* returns, only when every goroutine is done, both channels are closed and
\* drained, and the K outcomes have all been received.
C12_FanInBarrier ==
    /\ []((chans.la.closed \/ chans.er.closed) => AllDone)
    /\ [](pc = "panic" => closer = "none")
    /\ [][LoopReturns =>
            /\ AllDone
            /\ Len(tasks) = h.k
            /\ chans.la.closed /\ chans.er.closed
            /\ chans.la.buf = <<>> /\ chans.er.buf = <<>>
            /\ Len(result'.areas) + h'.errors = h.k]_vars

\* C12's case: all goroutines are done and the channels closed while the loop
\* has drained one channel and still has an outcome to receive on the other
C12_Witness ==
    /\ pc = "collect"
    /\ closer = "done"
    /\ Len(tasks) = PageSize
    /\ AllDone
    /\ coll.laNil
    /\ Len(coll.areas) > 0
    /\ Len(chans.er.buf) > 0

(***************************************************************************)
(* Claims about the cache's locking and its frame.                         *)
(***************************************************************************)
\* thread t is between Lock and Unlock inside Add or Get
InCritical(t) == call[t].pc \in {"crit", "unlock"}

\* reapLoop is between Lock and Unlock: its range over the map is under way
Sweeping == reaper.pc = "sweep"

\* the Add calls, Get calls and sweeps inside their critical sections
Occupants == Cardinality({t \in Threads : InCritical(t)}) + (IF Sweeping THEN 1 ELSE 0)

\* C13: at most one of an Add call, a Get call and a reaper sweep is inside
\* its critical section on the map; so while a Get (or Add) is inside, no
\* sweep is under way: it sees the map as a completed Add or a completed
\* sweep left it.
C13_MutualExclusion ==
    /\ Occupants <= 1
    /\ \A t \in Threads : InCritical(t) => (mu = t /\ ~Sweeping)
    /\ Sweeping => mu = ReaperThread

\* C13's case: a Get is inside while another caller and the reaper wait for
\* the lock
C13_Witness ==
    \E t, u \in Workers :
        /\ call[t].op = "Get" /\ call[t].pc = "crit"
        /\ call[u].pc = "lock"
        /\ reaper.pc = "lock"

\* C14: the payload Add retains and the payload Get returns are copies, so
\* whatever a caller writes into the slice it passed to Add or received from
\* Get, a Get that finds the key returns the payload that was added last.
C14_NoAliasing ==
    \A t \in Threads :
        (call[t].op = "Get" /\ call[t].pc = "ret" /\ call[t].ret.found)
            => call[t].ret.val = hist[call[t].key].val

(***************************************************************************)
(* Claims about cleanInput.                                                *)
(***************************************************************************)
\* the maximal runs of non-whitespace characters of line s, as <<first, last>>
Runs(s) ==
    {r \in (1..Len(s)) \X (1..Len(s)) :
        /\ r[1] <= r[2]
        /\ \A i \in r[1]..r[2] : s[i] \notin Whitespace
        /\ r[1] = 1 \/ s[r[1] - 1] \in Whitespace
        /\ r[2] = Len(s) \/ s[r[2] + 1] \in Whitespace}

\* the i-th run of s in input order
RunAt(s, i) == CHOOSE r \in Runs(s) : Cardinality({q \in Runs(s) : q[1] < r[1]}) = i - 1

\* word w is run r of s in lower case
IsLowered(w, s, r) ==
    /\ Len(w) = r[2] - r[1] + 1
    /\ \A j \in 1..Len(w) :
          /\ w[j] \notin {"A", "B"}
          /\ w[j] = s[r[1] + j - 1] \/ <<s[r[1] + j - 1], w[j]>> \in {<<"A", "a">>, <<"B", "b">>}

\* C15: for every input line cleanInput returns, in input order, the maximal
\* runs of non-whitespace characters, each in lower case; no word of the
\* result is the empty string.
C15_CleanInput ==
    repl.pc = "cleaned" =>
        /\ Len(repl.cleanedInput) = Cardinality(Runs(repl.input))
        /\ \A i \in 1..Len(repl.cleanedInput) :
              /\ repl.cleanedInput[i] # <<>>
              /\ IsLowered(repl.cleanedInput[i], repl.input, RunAt(repl.input, i))

\* C15's case: a line with a leading blank, an upper-case letter and a tab
\* between two words has been cleaned
C15_Witness ==
    /\ repl.pc = "cleaned"
    /\ repl.input = <<" ", "B", "\t", "a">>
    /\ repl.cleanedInput = << <<"b">>, <<"a">> >>

\* a step of thread t inside a Get call: its Lock, its body or its Unlock
GetStep(t) ==
    /\ call[t].op = "Get"
    /\ call[t].pc \in {"lock", "crit", "unlock"}
    /\ call'[t] # call[t]

\* a step of thread t inside an Add call
AddStep(t) ==
    /\ call[t].op = "Add"
    /\ call[t].pc \in {"lock", "crit", "unlock"}
    /\ call'[t] # call[t]

\* a step that removes a key from the map
Removes == \E k \in DOMAIN cacheMap : k \notin DOMAIN cacheMap'

\* C16: no step of a Get call changes the entry map (keys, payloads and
\* creation times); a step that removes an entry is a step of the reaper's
\* sweep, never one of Get or Add.
C16_GetFrame ==
    [][/\ \A t \in Threads : GetStep(t) => cacheMap' = cacheMap
       /\ Removes => (Sweeping /\ reaper' # reaper /\ \A t \in Threads : ~GetStep(t) /\ ~AddStep(t))]_vars

\* C16's case: a Get has found an entry some time after its Add, and the entry
\* is in the map as the Add left it, while the reaper has completed a sweep
C16_Witness ==
    \E t \in Threads :
        /\ call[t].op = "Get" /\ call[t].pc = "ret" /\ call[t].ret.found
        /\ call[t].key \in DOMAIN cacheMap
        /\ cacheMap[call[t].key] = cacheEntry(hist[call[t].key].val, hist[call[t].key].at)
        /\ now > hist[call[t].key].at
        /\ swept > 0

\* C17: an Add on a key, whether or not the key holds an entry, leaves the
\* key with the payload and the time of that Add (hist holds each key's last
\* Add), and every other key with the entry of its own last Add; the entry
\* stays at least until one interval after its latest Add.
C17_AddOverwrites ==
    /\ \A k \in Keys :
          /\ (Added(k) /\ ~hist[k].reaped) =>
                (k \in DOMAIN cacheMap /\ cacheMap[k] = cacheEntry(hist[k].val, hist[k].at))
          /\ (Added(k) /\ now <= hist[k].at + Interval) => k \in DOMAIN cacheMap
    /\ \A t \in Threads :
          (call[t].op = "Add" /\ call[t].pc = "ret") =>
              (hist[call[t].key].val = call[t].val /\ hist[call[t].key].by = t)

\* C17's case: the caller has added p2 on a key it had added p1 on before,
\* later than another key's entry, which is still there
C17_Witness ==
    \E t \in Threads, k \in Keys :
        /\ call[t].op = "Add" /\ call[t].pc = "ret" /\ call[t].key = k
        /\ prev[t].op = "Add" /\ prev[t].key = k /\ prev[t].val # call[t].val
        /\ k \in DOMAIN cacheMap
        /\ cacheMap[k].val = call[t].val
        /\ \E j \in DOMAIN cacheMap : j # k /\ cacheMap[j].createdAt < cacheMap[k].createdAt

\* the age of key k's entry
Age(k) == now - cacheMap[k].createdAt

\* one iteration of the sweep's range: a key leaves reaper.todo
SweepStep == Sweeping /\ reaper'.pc = "sweep" /\ reaper'.todo # reaper.todo

\* the key that iteration looks at
SweepKey == CHOOSE k \in reaper.todo : k \notin reaper'.todo

\* C18: each iteration of a sweep removes the entry it looks at if the
\* entry's age then strictly exceeds the interval, keeps it if the age is at
\* most the interval, and leaves every other entry, payload and creation
\* time, as it is; at the end of the sweep no entry older than the interval
\* at the tick is left; an entry removed was older than the interval, so an
\* entry added by an Add that waited for the sweep is not touched.
C18_SweepPrecision ==
    /\ [][SweepStep =>
            /\ Age(SweepKey) > Interval => SweepKey \notin DOMAIN cacheMap'
            /\ Age(SweepKey) <= Interval => SweepKey \in DOMAIN cacheMap'
            /\ DOMAIN cacheMap' \subseteq DOMAIN cacheMap
            /\ \A j \in DOMAIN cacheMap' : cacheMap'[j] = cacheMap[j]
            /\ \A j \in DOMAIN cacheMap : j # SweepKey => j \in DOMAIN cacheMap']_vars
    /\ []((Sweeping /\ reaper.todo = {}) =>
            \A k \in DOMAIN cacheMap : reaper.tick - cacheMap[k].createdAt <= Interval)
    /\ [](\A k \in Keys : hist[k].reaped => now - hist[k].at > Interval)

\* C18's case: a sweep has gone over the map, removed an entry older than
\* the interval and kept one whose age is the interval, while an Add waits
\* for the lock
C18_Witness ==
    /\ Sweeping
    /\ reaper.todo = {}
    /\ \E k \in Keys : hist[k].reaped /\ k \notin DOMAIN cacheMap
    /\ \E k \in DOMAIN cacheMap : Age(k) = Interval
    /\ \E t \in Threads : call[t].op = "Add" /\ call[t].pc = "lock"

(***************************************************************************)
(* Claims about the pipeline with the clock running.                       *)
(***************************************************************************)
\* the body of a Get by thread t reads an entry older than the interval
ReadsExpired(t) ==
    /\ call[t].op = "Get"
    /\ call[t].pc = "crit"
    /\ call'[t].pc = "unlock"
    /\ call[t].key \in DOMAIN cacheMap
    /\ Age(call[t].key) > Interval

\* GetLocationAreas moves on from cache.Get(listAPIURL)
LeavesLookup == pc = "lookup" /\ pc' # "lookup"

\* C19: a Get whose key holds an entry older than the interval, which no
\* sweep has removed, returns found = true with the stored payload; and
\* GetLocationAreas, whenever its Get of the list URL returned found, takes
\* the cached bytes and makes no transport call for the list.
C19_NoLivenessCheck ==
    /\ [][\A t \in Threads :
            ReadsExpired(t) =>
                call'[t].ret = [val |-> cacheMap[call[t].key].val, found |-> TRUE]]_vars
    /\ [][(LeavesLookup /\ call[MainThread].ret.found) =>
            (h'.hit = "hit" /\ h'.listNet = 0 /\ pc' # "http")]_vars
    /\ [](h.hit = "hit" => h.listNet = 0)

\* C19's case: a call has hit the list entry and returned with no transport
\* call for the list, and the entry was older than the interval when it was
\* read: another page was stored more than an interval after it, in an
\* earlier command
C19_Witness ==
    /\ Completed
    /\ h.hit = "hit"
    /\ h.listNet = 0
    /\ Added(h.url)
    /\ \E k \in Keys : k # h.url /\ Added(k) /\ hist[k].at > hist[h.url].at + Interval

\* a transport request is in flight: http.Get of the list URL, of an
\* explore or catch URL, or the http.Get calls of the detail goroutines
InFlight == pc \in {"http", "xhttp", "fetching"}

\* C20: while a transport request is in flight the thread that made it does
\* not hold the mutex (the main goroutine is outside Add and Get; a detail
\* goroutine never is the holder); the mutex is held by a caller exactly
\* between the Lock and the Unlock of one Add or Get, and by the reaper
\* exactly during one sweep, and is free whenever main is at the prompt.
C20_NoLockAcrossNetwork ==
    /\ InFlight => (mu # MainThread /\ ~InCritical(MainThread))
    /\ mu \in {NoThread, MainThread, ReaperThread}
    /\ mu = MainThread <=> InCritical(MainThread)
    /\ mu = ReaperThread <=> Sweeping
    /\ pc = "prompt" => mu # MainThread

\* C20's case: the list request is in flight while the reaper, holding the
\* mutex, is in the middle of a sweep
C20_Witness ==
    /\ pc = "http"
    /\ call[MainThread].op = "Get"
    /\ Sweeping
    /\ reaper.todo # {}

(***************************************************************************)
(* Further claims about the fetch pipeline.                                *)
(***************************************************************************)
\* the goroutines of the call whose http.Get has returned
Fetched == {i \in DOMAIN tasks : tasks[i].pc # "http"}

\* C21: within one GetLocationAreas call at most one transport call is made
\* for the list URL; exactly one goroutine is dispatched per reference of
\* the decoded list, for that reference's URL; each makes at most one
\* transport call (the calls made are one per goroutine that has fetched);
\* and each failed fetch yields exactly one error entry, on errorCh or
\* collected, and in the end as many errors as fetches failed.
C21_NoRetries ==
    /\ h.listNet <= 1
    /\ h.detailNet <= h.k
    /\ pc = "collect" =>
          /\ Len(tasks) = Len(gla.list.Results)
          /\ h.k = Len(tasks)
          /\ \A i \in DOMAIN tasks : tasks[i].url = gla.list.Results[i]
          /\ h.detailNet = Cardinality(Fetched)
          /\ Len(chans.er.buf) + Len(coll.errors) = h.failed
          /\ Len(chans.la.buf) + Len(coll.areas) = Cardinality(Fetched) - h.failed
    /\ Completed => (h.detailNet = h.k /\ h.errors = h.failed)

\* C21's case: a call missed the cache, fetched the list once and every
\* reference once, and returned with one error for the one fetch that failed
C21_Witness ==
    /\ Completed
    /\ h.hit = "miss"
    /\ h.listNet = 1
    /\ h.k = PageSize
    /\ h.detailNet = PageSize
    /\ h.failed = 1
    /\ h.errors = 1
    /\ Len(result.areas) = PageSize - 1

(***************************************************************************)
(* C22. Get and the reaper.                                                *)
(***************************************************************************)
\* a Get that has been invoked and stands at c.mu.Lock()
GetWaiting(t) == call[t].op = "Get" /\ call[t].pc = "lock"

\* the reaper can take its next step without any step of a caller or the clock
ReaperRuns == ENABLED (ReapStep \/ ReapUnlock)

\* C22 (as stated): a Get call can always proceed without waiting for the
\* reaper, also when it was invoked while a sweep is in progress: a Get at
\* its Lock never finds the mutex held by the reaper.
C22_GetNeverBlocks == \A t \in Workers : GetWaiting(t) => mu # ReaperThread

\* C22 (amended): a Get waits for the reaper only during the critical section
\* of one sweep. The reaper holds the mutex exactly while it sweeps, never
\* while it waits for a tick or for the mutex; a Get at its Lock either can
\* take the mutex at once, or waits for another caller inside its critical
\* section, or waits for a sweep that can run to its Unlock on its own.
C22_GetWaitsOnlyForSweep ==
    /\ (mu = ReaperThread) <=> Sweeping
    /\ \A t \in Workers : GetWaiting(t) =>
          \/ ENABLED Lock(t)
          \/ mu \in Workers \ {t} /\ InCritical(mu)
          \/ Sweeping /\ ReaperRuns

\* a Get invoked while the sweep still has entries to look at
C22_Witness == \E t \in Workers : GetWaiting(t) /\ Sweeping /\ reaper.todo # {}

(***************************************************************************)
(* C23. The fan-out under a fair scheduler: every goroutine that can take  *)
(* a step eventually takes one, and every http.Get that was started        *)
(* returns.  Nothing is assumed of the user, the clock or the list fetch.  *)
(***************************************************************************)
\* the goroutine started for reference i: its fetch and send, then wg.Done()
DetailGoroutine(i) == i \in DOMAIN tasks /\ (TaskFetch(i) \/ TaskDone(i))

\* the goroutine that waits for the WaitGroup and closes the channels
CloserGoroutine == CloserWait \/ CloserClose

\* GetLocationAreas from the decoded list page on: the dispatch and the select loop
MainGoroutine == Dispatch \/ RecvArea \/ RecvError \/ RecvAreaClosed \/ RecvErrorClosed

SpecFan ==
    /\ Init
    /\ [][Next]_vars
    /\ \A i \in 1..PageSize : WF_vars(DetailGoroutine(i))
    /\ WF_vars(CloserGoroutine)
    /\ WF_vars(MainGoroutine)

\* a goroutine whose fetch is still out finds room on both channels
RoomToSend ==
    (pc = "collect" /\ \E i \in DOMAIN tasks : tasks[i].pc = "http") =>
        /\ Len(chans.la.buf) < chans.la.cap
        /\ Len(chans.er.buf) < chans.er.cap

BothClosed == pc = "collect" /\ chans.la.closed /\ chans.er.closed

\* C23: once the list page has resolved, GetLocationAreas returns, for every
\* number K >= 0 of references and every interleaving: no detail goroutine
\* waits at its send (both channels always have room for it), the closing
\* goroutine closes both channels, and the loop ends after that.
C23_FanInTerminates ==
    /\ []RoomToSend
    /\ (pc = "decoded") ~> BothClosed
    /\ BothClosed ~> Completed
    /\ (pc = "decoded" /\ Len(gla.list.Results) = 0) ~> (Completed /\ h.k = 0)

\* all K outcomes are errors and none has been received: errorCh is full
C23_Witness ==
    /\ pc = "collect"
    /\ chans.er.cap = PageSize
    /\ Len(chans.er.buf) = PageSize
    /\ coll.errors = <<>>
    /\ closer = "wait"

(***************************************************************************)
(* C24. A list failure leaves the cursor alone.                            *)
(***************************************************************************)
\* the body the current call handed to json.Unmarshal: the cached one on a
\* hit, the fetched one on a miss
DecodedBody == IF h.hit = "hit" THEN call[MainThread].ret.val ELSE h.body

\* the list page of the current call met one of the failures: no response, a
\* non-OK status, an unreadable body, or a body that is no document
ListFailure ==
    \/ h.resp \in Failures
    \/ h.decodes = 1 /\ DecodedBody = Junk

\* C24: if resolving the list page fails at any step (transport, status,
\* body read, or decode on the hit or the miss path), the call returns that
\* error, the cursor is what it was before the call, and no detail fetch is
\* dispatched.
C24_CursorUnchangedOnListFailure ==
    /\ ListFailure => h.listFailed
    /\ h.listFailed =>
          /\ pc = "prompt"
          /\ config = h.before
          /\ result.areas = <<>>
          /\ result.err \in Failures \cup {"decode"}
          /\ h.k = 0 /\ h.detailNet = 0
          /\ tasks = <<>> /\ wg = 0 /\ closer = "none"

\* a decode failure on the hit path, with a cursor that had already moved
C24_Witness ==
    /\ h.listFailed
    /\ h.hit = "hit"
    /\ result.err = "decode"
    /\ h.before = [Next |-> 2, Previous |-> Nil]
    /\ config = h.before

(***************************************************************************)
(* C25. The cursor field GetLocationAreas dereferences.                    *)
(***************************************************************************)
\* C25: over every sequence of map and mapb commands from the initial
\* cursor, GetLocationAreas is never entered with the cursor field of its
\* direction nil, and so never dereferences a nil pointer; in particular not
\* by a map command after the last page (next = null) was fetched.
C25_NoNilDereference ==
    /\ pc = "entry" => Selected(config, gla.direction) # Nil
    /\ ~(pc = "panic" /\ h.cmd = "map" /\ h.before.Next = Nil)

(***************************************************************************)
(* C26. Paging through the catalog P1..Pn.                                 *)
(***************************************************************************)
\* the cursor main starts with
StartCursor == [Next |-> RootURL, Previous |-> Nil]

\* the links of page p
CursorOf(p) == [Next |-> NextOf(p), Previous |-> PreviousOf(p)]

\* the page that was fetched last when the cursor is cfg (0 before the first)
LastFetched(cfg) == IF cfg = StartCursor THEN 0 ELSE CHOOSE p \in Pages : cfg = CursorOf(p)

\* C26: in a catalog of linearly linked pages, after page Pi was the last one
\* fetched the cursor holds Next = Pi+1 and Previous = Pi-1; a map then
\* fetches Pi+1 and a mapb that has a previous page does fetch Pi-1, never Pi
\* itself; so map and then mapb from Pi fetch Pi+1 and then Pi again.
C26_NavigationConsistency ==
    /\ config = StartCursor \/ \E p \in Pages : config = CursorOf(p)
    /\ h.url # Nil =>
          LET i == LastFetched(h.before) IN
          /\ h.url \in Pages
          /\ h.url # i
          /\ h.cmd = "map" => h.url = i + 1
          /\ h.cmd = "mapb" => h.url = i - 1
    /\ (h.cmd = "mapb" /\ h.before.Previous # Nil) => pc # "panic"
    /\ Completed => config = CursorOf(h.url)
    /\ (GlaReturned /\ ~ListResolved) => config = h.before

\* map, map, mapb: P1, P2 and then P1 again
C26_Witness ==
    /\ Completed
    /\ h.cmd = "mapb"
    /\ h.before = CursorOf(2)
    /\ h.url = 1
    /\ config = CursorOf(1)
    /\ cmds = 3

(***************************************************************************)
(* C27. A body that does not decode stays in the cache.                    *)
(***************************************************************************)
\* the current call missed, got an OK response with a readable body, and
\* the body did not decode
MissDecodeFailed ==
    /\ GlaReturned
    /\ h.hit = "miss"
    /\ h.resp = "ok"
    /\ h.decodes = 1
    /\ h.listFailed

\* the entry of key k holds the body that is no document
HoldsJunk(k) == k \in DOMAIN cacheMap /\ cacheMap[k].val = Junk

\* the body of main's Get of a list URL whose entry holds that body
GetsJunk ==
    /\ pc = "lookup"
    /\ call[MainThread].pc = "crit"
    /\ call'[MainThread].pc = "unlock"
    /\ HoldsJunk(call[MainThread].key)

\* GetLocationAreas moves on from a Get that returned that body
LeavesJunkLookup ==
    /\ LeavesLookup
    /\ call[MainThread].ret = [val |-> Junk, found |-> TRUE]

\* C27: after a call that misses, receives an OK response and a fully read
\* body that does not decode, the raw body is in the cache under the list
\* URL until the reaper evicts it; a later call for that URL whose Get finds
\* the entry takes the hit path, makes no transport call, fails with the
\* decode error again and leaves the cursor unchanged.
C27_UndecodableBodyCached ==
    /\ [](MissDecodeFailed =>
            /\ Added(h.url)
            /\ hist[h.url].val = Junk
            /\ h.url \in DOMAIN cacheMap <=> ~hist[h.url].reaped
            /\ ~hist[h.url].reaped => HoldsJunk(h.url)
            /\ config = h.before)
    /\ [][GetsJunk => call'[MainThread].ret = [val |-> Junk, found |-> TRUE]]_vars
    /\ [][LeavesJunkLookup =>
            /\ pc' = "prompt"
            /\ h'.hit = "hit"
            /\ h'.listNet = 0
            /\ h'.detailNet = 0
            /\ h'.listFailed
            /\ result' = [areas |-> <<>>, err |-> "decode"]
            /\ config' = h.before]_vars

\* the second call for the URL, at a later time, has failed on the hit path
\* and the body is still in the cache
C27_Witness ==
    /\ GlaReturned
    /\ h.hit = "hit"
    /\ h.listNet = 0
    /\ result.err = "decode"
    /\ config = h.before
    /\ HoldsJunk(h.url)
    /\ now > hist[h.url].at

=============================================================================
